---- MODULE Spec2Model ----
(***************************************************************************)
(* Queue orchestration core of the jukebox player: the shared queue, the   *)
(* now-playing slot, the playback timer, hook dispatch to extension        *)
(* modules and the continuations of backend.prepareSong; and the "local"   *)
(* backend: preparation of a song, the ingestion pool, catalog search and  *)
(* the metadata guessed from a file name.                                  *)
(***************************************************************************)
EXTENDS Integers, Sequences, FiniteSets, TLC

(* ---------------------------- bounds ----------------------------------- *)
MaxSongs == 3
MaxAccepts == 4
MaxPending == 2
MaxModules == 1
MaxHookModules == 3
MaxPrepSongs == 2
MaxAttempts == 2
MaxFiles == 4
MaxProbes == 2
MaxItems == 4
MaxResultCnt == 2
MaxMaxScore == 2
MaxNameLen == 7

(* ------------------------ program constants ---------------------------- *)
songDelayMs == 1

(* ------------------------- JavaScript values --------------------------- *)
\* A value is a record: t is the type tag, s the string payload, n the
\* integer part of a number and f its first fractional digit.
Undefined == [t |-> "undefined", s |-> "", n |-> 0, f |-> 0]
Str(x) == [t |-> "string", s |-> x, n |-> 0, f |-> 0]
Num(k) == [t |-> "number", s |-> "", n |-> k, f |-> 0]
Frac(k, d) == [t |-> "number", s |-> "", n |-> k, f |-> d]
ModuleObj(name) == [t |-> "object", s |-> "module", n |-> name, f |-> 0]

Truthy(v) ==
    CASE v.t = "undefined" -> FALSE
      [] v.t = "string" -> v.s # ""
      [] v.t = "number" -> (v.n # 0 \/ v.f # 0)
      [] OTHER -> TRUE

\* parseInt of a non-negative number: the digits before the decimal point
parseInt(v) == v.n

(* ------------------------------ hooks ---------------------------------- *)
HookNames == {"onEndOfQueue", "onSongPrepared", "onSongChange", "onSongEnd",
              "onNextSongPrepared", "onNextSongPrepareError",
              "onNothingToPrepare", "onSongPrepareError", "preSongQueued",
              "postSongQueued", "onBackendInit", "onBackendInitError"}

\* The module implementations a registration may supply.  has: the module
\* defines the hook; ret: what the hook returns when applied.
ModuleImpls == {"A", "B", "C", "D"}

HookImpl(impl, hook) ==
    CASE impl = "A" -> [has |-> TRUE, ret |-> Undefined]
      [] impl = "B" -> [has |-> (hook = "preSongQueued"), ret |-> Str("err")]
      [] impl = "C" -> [has |-> (hook \in {"preSongQueued", "postSongQueued"}),
                        ret |-> Str("truthy2")]
      [] OTHER -> [has |-> (hook \in {"onSongEnd", "onEndOfQueue"}),
                   ret |-> Num(1)]

\* queue, nowPlaying, modules, backends: the fields of _playerState (modules
\*   in key order, each [name, impl]).
\* backendInit: per configured backend, whether its init is still to call back.
\* pending: the continuations handed to prepareSong and not yet run.
\* timers: the armed setTimeout callbacks.
\* crashed: an exception escaped a callback.
\* ret, trace, op: what the last handler returned, the calls it made in
\*   order, and which handler it was with its arguments.
\* nextSeq: the ticket of the next accepted song (acceptance order).
\* live: tickets accepted and neither finished nor evicted.
\* waiting: tickets accepted and neither promoted nor evicted for their own
\*   preparation error.  maxStarted: the latest ticket promoted so far.
VARIABLES queue, nowPlaying, modules, backends, backendInit, pending, timers,
          crashed, ret, trace, op, nextSeq, live, waiting, maxStarted

\* The local backend.
\* self: the Local instance and the song objects it was handed
\*   (songsPreparing, the cache directory, the closures of the prepare calls
\*   made so far, and which of them each song's prepare handle belongs to).
\* call: the call on the backend that the last step made (none if the step
\*   was a callback or a cancel), and what it answered at once.
\* config: the configuration the instance was constructed with.
\* pool: the async.queue q of probe tasks; scanned: files the walker reported.
\* items, results: what the catalog returned for a search, and the reply.
\* probeData, inserted: a probe result and the catalog entry made from it.
VARIABLES self, call, config, pool, scanned, items, results, probeData, inserted

player == <<queue, nowPlaying, modules, backends, backendInit, pending, timers,
            crashed, ret, trace, op, nextSeq, live, waiting, maxStarted>>

local == <<self, call, config, pool, scanned, items, results, probeData, inserted>>

vars == <<queue, nowPlaying, modules, backends, backendInit, pending, timers,
          crashed, ret, trace, op, nextSeq, live, waiting, maxStarted,
          self, call, config, pool, scanned, items, results, probeData, inserted>>

(* ------------------------- enqueue requests ---------------------------- *)
BackendNames == {"local"}

SongIds == {Num(k) : k \in 1..MaxSongs}

\* Bodies of requests whose fields are all present: whole and fractional
\* durations alternate over the ids.
ValidSongs ==
    {[id |-> Num(k), title |-> Str("T"),
      duration |-> IF k % 2 = 1 THEN Num(3) ELSE Frac(2, 5),
      backend |-> "local"] : k \in 1..MaxSongs}

\* Bodies with a required field absent or falsy.
InvalidSongs ==
    {[id |-> Undefined, title |-> Str("T"), duration |-> Num(3), backend |-> "local"],
     [id |-> Num(1), title |-> Undefined, duration |-> Num(3), backend |-> "local"],
     [id |-> Num(1), title |-> Str("T"), duration |-> Undefined, backend |-> "local"],
     [id |-> Num(2), title |-> Str(""), duration |-> Num(0), backend |-> "local"]}

\* req.body of the POST /queue requests: every valid song with and without
\* a user id, every invalid one with a user id, and one with neither.
Requests ==
    {[song |-> s, userID |-> u] : s \in ValidSongs, u \in {Str("u1"), Undefined}}
    \cup {[song |-> s, userID |-> Str("u1")] : s \in InvalidSongs}
    \cup {[song |-> s, userID |-> Undefined] :
             s \in {x \in InvalidSongs : x.id = Undefined}}

(* --------------------------- player state ------------------------------ *)
\* The null now-playing slot, shaped like a queue entry.
Null == [id |-> Undefined, duration |-> Undefined, backend |-> "",
         playbackStart |-> FALSE, seq |-> 0]

Ev(e, h, a, b) == [ev |-> e, hook |-> h, n |-> a, m |-> b]

\* The program state a handler runs on and returns.
State == [queue |-> queue, nowPlaying |-> nowPlaying, pending |-> pending,
          timers |-> timers, thrown |-> FALSE, ret |-> Undefined,
          trace |-> <<>>, live |-> live, waiting |-> waiting,
          maxStarted |-> maxStarted]

Indices(n) == [i \in 1..n |-> i]

Min(S) == CHOOSE x \in S : \A y \in S : x <= y

(* --------------------------- _callHooks -------------------------------- *)
\* _.find over the module registry from position i on: the predicate applies
\* module[hook] when the module has it; the walk ends at the first truthy
\* predicate value.  found: position of that module (0: none); calls: the
\* positions whose hook was applied, in order.
\* (_.each in place of _.find: no module is skipped after a truthy return)
RECURSIVE FindEach(_, _, _, _)
FindEach(mods, hook, i, calls) ==
    IF i > Len(mods) THEN [found |-> 0, calls |-> calls]
    ELSE IF HookImpl(mods[i].impl, hook).has
         THEN FindEach(mods, hook, i + 1, Append(calls, i))
         ELSE FindEach(mods, hook, i + 1, calls)

RECURSIVE Find(_, _, _, _)
Find(mods, hook, i, calls) ==
    IF i > Len(mods) THEN [found |-> 0, calls |-> calls]
    ELSE IF HookImpl(mods[i].impl, hook).has
         THEN IF Truthy(HookImpl(mods[i].impl, hook).ret)
              THEN [found |-> i, calls |-> Append(calls, i)]
              ELSE Find(mods, hook, i + 1, Append(calls, i))
         ELSE Find(mods, hook, i + 1, calls)

\* _callHooks returns what _.find returns: the element (the module) for
\* which the predicate was truthy, or undefined.
CallHooks(mods, hook) ==
    LET r == Find(mods, hook, 1, <<>>)
    IN IF r.found = 0 THEN Undefined ELSE ModuleObj(mods[r.found].name)

\* A _callHooks call inside a handler, as it shows in the handler's trace:
\* the dispatch (with the id in the now-playing slot at that moment), then
\* one call per module applied.
Dispatch(st, hook) ==
    LET calls == Find(modules, hook, 1, <<>>).calls
    IN [st EXCEPT !.trace = @ \o <<Ev("dispatch", hook, st.nowPlaying.id.n, 0)>>
                              \o [i \in 1..Len(calls) |->
                                    Ev("call", hook, modules[calls[i]].name, calls[i])]]

(* ------------------------- queue primitives ---------------------------- *)
\* (off by one: the last queue entry is never looked at)
SearchQueueSkipsLast(st, songID) ==
    LET hit == {i \in 1..(Len(st.queue) - 1) : st.queue[i].id = songID}
    IN IF hit # {} THEN st.queue[Min(hit)]
       ELSE IF st.nowPlaying # Null /\ st.nowPlaying.id = songID
            THEN st.nowPlaying
            ELSE Null

\* (the now-playing slot is never looked at)
SearchQueueQueueOnly(st, songID) ==
    LET hit == {i \in 1..Len(st.queue) : st.queue[i].id = songID}
    IN IF hit # {} THEN st.queue[Min(hit)] ELSE Null

\* _searchQueue: the queue entry with this id, else the now-playing entry
\* if it has this id, else null.
SearchQueue(st, songID) ==
    LET hit == {i \in 1..Len(st.queue) : st.queue[i].id = songID}
    IN IF hit # {} THEN st.queue[Min(hit)]
       ELSE IF st.nowPlaying # Null /\ st.nowPlaying.id = songID
            THEN st.nowPlaying
            ELSE Null

\* The queue without its i-th entry (splice(i, 1)).
Splice(q, i) == [j \in 1..(Len(q) - 1) |-> IF j < i THEN q[j] ELSE q[j + 1]]

\* _removeFromQueue: drops the first queue entry with this id, if any.
RemoveFromQueue(st, songID) ==
    LET hit == {i \in 1..Len(st.queue) : st.queue[i].id = songID}
    IN IF hit = {} THEN st
       ELSE [st EXCEPT !.queue = Splice(st.queue, Min(hit)),
                       !.trace = Append(@, Ev("remove", "", songID.n,
                                              st.queue[Min(hit)].seq))]

\* Bookkeeping of an eviction by a preparation-error continuation: before is
\* the state the continuation found, after the state it left, failedID the
\* id whose preparation failed.  An entry that left the queue is no longer
\* live; it stops waiting for its turn only if it is the one that failed.
Evicted(before, after, failedID) ==
    LET gone == {before.queue[i] : i \in 1..Len(before.queue)}
                  \ {after.queue[i] : i \in 1..Len(after.queue)}
    IN [after EXCEPT !.live = @ \ {e.seq : e \in gone},
                     !.waiting = @ \ {e.seq : e \in {g \in gone : g.id = failedID}}]

\* backends[name].prepareSong(id, ok, err): the backend keeps the two
\* continuations; kind says which pair ("now" or "next"), start is the
\* startPlayingNext the "now" pair closed over.  A call beyond MaxPending
\* outstanding ones is one the backend never completes.
PrepareSong(st, backend, id, kind, start) ==
    IF backend \notin backends
    THEN [st EXCEPT !.thrown = TRUE, !.trace = Append(@, Ev("throw", kind, id.n, 0))]
    ELSE LET c == [kind |-> kind, start |-> start, id |-> id]
         IN [st EXCEPT !.trace = Append(@, Ev("prepareSong", kind, id.n, 0)),
                       !.pending = IF Cardinality(@) < MaxPending THEN @ \cup {c} ELSE @]

(* --------------------------- _onQueueModify ---------------------------- *)
\* The now-playing transition: shift the head into the slot, then
\* _removeFromQueue(nowPlaying.id).
Promote(st) ==
    LET head == st.queue[1]
        moved == [st EXCEPT !.nowPlaying = head,
                            !.queue = Tail(st.queue),
                            !.trace = Append(@, Ev("promote", "", head.id.n, head.seq)),
                            !.waiting = @ \ {head.seq},
                            !.maxStarted = IF head.seq > @ THEN head.seq ELSE @]
    IN RemoveFromQueue(moved, head.id)

OnQueueModify(st) ==
    IF Len(st.queue) = 0
    THEN Dispatch([st EXCEPT !.trace = Append(@, Ev("onQueueModify", "", 0, 0))],
                  "onEndOfQueue")
    ELSE LET s0 == [st EXCEPT !.trace = Append(@, Ev("onQueueModify", "", 0, 0))]
             startPlayingNext == (s0.nowPlaying = Null)
             s1 == IF startPlayingNext THEN Promote(s0) ELSE s0
         IN PrepareSong(s1, s1.nowPlaying.backend, s1.nowPlaying.id, "now",
                        startPlayingNext)

\* Throwing on a property read of a null object (nowPlaying.id, queue[0].id).
Throw(st, what) ==
    [st EXCEPT !.thrown = TRUE, !.trace = Append(@, Ev("throw", what, 0, 0))]

\* (the trailing delay forgotten)
SongTimeoutNoDelay(entry) == parseInt(entry.duration)

\* The timer armed for the now-playing song.
SongTimeout(entry) == parseInt(entry.duration) + songDelayMs

\* (the head of the queue is not prepared after the now-playing song)
NowPreparedNoPrefetch(st, c) ==
    LET s1 == Dispatch(st, "onSongPrepared")
    IN IF ~c.start THEN s1
       ELSE IF s1.nowPlaying = Null THEN Throw(s1, "playbackStart")
       ELSE LET s2a == [s1 EXCEPT !.nowPlaying.playbackStart = TRUE]
                s2b == Dispatch(s2a, "onSongChange")
            IN [s2b EXCEPT
                  !.timers = Append(@, [delay |-> SongTimeout(s2b.nowPlaying),
                                        id |-> s2b.nowPlaying.id,
                                        seq |-> s2b.nowPlaying.seq]),
                  !.trace = Append(@, Ev("setTimeout", "",
                                         SongTimeout(s2b.nowPlaying),
                                         s2b.nowPlaying.id.n))]

\* Success continuation of the now-playing preparation (c.start is the
\* startPlayingNext it closed over).
NowPrepared(st, c) ==
    LET s1 == Dispatch(st, "onSongPrepared")
        s2 == IF ~c.start THEN s1
              ELSE IF s1.nowPlaying = Null THEN Throw(s1, "playbackStart")
              ELSE LET s2a == [s1 EXCEPT !.nowPlaying.playbackStart = TRUE]
                       s2b == Dispatch(s2a, "onSongChange")
                   IN [s2b EXCEPT
                         !.timers = Append(@, [delay |-> SongTimeout(s2b.nowPlaying),
                                               id |-> s2b.nowPlaying.id,
                                               seq |-> s2b.nowPlaying.seq]),
                         !.trace = Append(@, Ev("setTimeout", "",
                                                SongTimeout(s2b.nowPlaying),
                                                s2b.nowPlaying.id.n))]
    IN IF s2.thrown THEN s2
       ELSE IF Len(s2.queue) # 0
            THEN PrepareSong(s2, s2.queue[1].backend, s2.queue[1].id, "next", FALSE)
            ELSE Dispatch(s2, "onNothingToPrepare")

\* Error continuation of the now-playing preparation.
NowPrepareError(st, c) ==
    IF st.nowPlaying = Null THEN Throw(st, "nowPlaying.id")
    ELSE LET s1 == Dispatch(st, "onSongPrepareError")
         IN Evicted(st, RemoveFromQueue(s1, s1.nowPlaying.id), c.id)

\* Success continuation of the pre-fetch of the queue head.
NextPrepared(st, c) == Dispatch(st, "onNextSongPrepared")

\* Error continuation of the pre-fetch of the queue head.
NextPrepareError(st, c) ==
    IF Len(st.queue) = 0 THEN Throw(st, "queue[0].id")
    ELSE LET s1 == Dispatch(st, "onNextSongPrepareError")
         IN Evicted(st, RemoveFromQueue(s1, s1.queue[1].id), c.id)

\* (the slot is not cleared before the queue is looked at again)
SongTimerKeepsSlot(st) ==
    IF st.nowPlaying = Null THEN Throw(st, "nowPlaying.id")
    ELSE OnQueueModify(Dispatch(st, "onSongEnd"))

\* The setTimeout callback.
SongTimer(st) ==
    IF st.nowPlaying = Null THEN Throw(st, "nowPlaying.id")
    ELSE LET s1 == Dispatch(st, "onSongEnd")
             s2 == [s1 EXCEPT !.live = @ \ {s1.nowPlaying.seq},
                              !.nowPlaying = Null,
                              !.trace = Append(@, Ev("clear", "", s1.nowPlaying.id.n,
                                                     s1.nowPlaying.seq))]
         IN OnQueueModify(s2)

(* ------------------------------ enqueue -------------------------------- *)
\* _initializeSong: set the bookkeeping fields and push onto the queue.
InitializeSong(st, song) ==
    LET e == [id |-> song.id, duration |-> song.duration, backend |-> song.backend,
              playbackStart |-> FALSE, seq |-> nextSeq]
    IN [st EXCEPT !.queue = Append(@, e),
                  !.trace = Append(@, Ev("push", "", e.id.n, e.seq)),
                  !.live = @ \cup {e.seq},
                  !.waiting = @ \cup {e.seq}]

\* (the user id is not checked)
ValidationErrorNoUser(song, userID) ==
    IF ~Truthy(song.title) \/ ~Truthy(song.id) \/ ~Truthy(song.duration)
    THEN Str("required song fields not provided")
    ELSE Undefined

\* The checks of the request: the error string, or undefined to go on.
ValidationError(song, userID) ==
    IF ~Truthy(song.title) \/ ~Truthy(song.id) \/ ~Truthy(song.duration)
    THEN Str("required song fields not provided")
    ELSE IF ~Truthy(userID)
    THEN Str("invalid userID")
    ELSE Undefined

\* (the result of preSongQueued is not looked at)
AdmitIgnoringVeto(st, song) ==
    LET s1 == Dispatch(st, "preSongQueued")
        s2 == OnQueueModify(InitializeSong(s1, song))
    IN IF s2.thrown THEN s2 ELSE Dispatch(s2, "postSongQueued")

\* The rest of _addToQueue, for a request that is no duplicate: the veto of
\* preSongQueued, then initialize, onQueueModify and postSongQueued.
Admit(st, song) ==
    LET s1 == Dispatch(st, "preSongQueued")
        err == CallHooks(modules, "preSongQueued")
    IN IF Truthy(err) THEN [s1 EXCEPT !.ret = err]
       ELSE LET s2 == OnQueueModify(InitializeSong(s1, song))
            IN IF s2.thrown THEN s2 ELSE Dispatch(s2, "postSongQueued")

AddToQueue(st, song, userID) ==
    IF ValidationError(song, userID) # Undefined
    THEN [st EXCEPT !.ret = ValidationError(song, userID)]
    ELSE IF SearchQueue(st, song.id) # Null
    THEN [st EXCEPT !.ret = Str("duplicate songID")]
    ELSE Admit(st, song)

(* ------------------------------ actions -------------------------------- *)
NoSong == [id |-> Undefined, title |-> Undefined, duration |-> Undefined,
           backend |-> ""]
NoCont == [kind |-> "", start |-> FALSE, id |-> Undefined]

\* What the last step was: the handler that ran and its arguments.
Op(name, song, userID, cont, hook) ==
    [name |-> name, song |-> song, userID |-> userID, cont |-> cont, hook |-> hook]

\* The handler's resulting program state becomes the next state.
Commit(st) ==
    /\ queue' = st.queue
    /\ nowPlaying' = st.nowPlaying
    /\ pending' = st.pending
    /\ timers' = st.timers
    /\ ret' = st.ret
    /\ trace' = st.trace
    /\ live' = st.live
    /\ waiting' = st.waiting
    /\ maxStarted' = st.maxStarted
    /\ UNCHANGED local

\* Song ids handed to the local backend.
PrepIds == 1..MaxPrepSongs

\* The local backend before any call: nothing preparing, an empty cache,
\* an empty probe queue, no search and no probe result.
NoCall == [name |-> "", id |-> 0, a |-> 0, out |-> ""]
NoConfig == [concurrentProbes |-> 1, searchResultCnt |-> 1, maxScore |-> 1]
\* A string as the sequence of its characters; NoText is undefined.
Text(cs) == [def |-> TRUE, chars |-> cs]
NoText == [def |-> FALSE, chars |-> <<>>]

NoProbe == [file |-> <<>>, fileext |-> <<>>,
            metadata |-> [TITLE |-> NoText, ARTIST |-> NoText, ALBUM |-> NoText]]
NoEntry == [title |-> NoText, artist |-> NoText, album |-> NoText]

InitLocal ==
    /\ self = [songsPreparing |-> {}, cache |-> {}, attempts |-> <<>>,
               handle |-> [id \in PrepIds |-> 0]]
    /\ call = NoCall
    /\ config = NoConfig
    /\ pool = [tasks |-> <<>>, workers |-> 0, stage |-> <<>>, started |-> <<>>,
               dones |-> <<>>, scheduled |-> FALSE, outcome |-> <<>>,
               catalog |-> {}]
    /\ scanned = 0
    /\ items = <<>>
    /\ results = <<>>
    /\ probeData = NoProbe
    /\ inserted = NoEntry

InitPlayer ==
    /\ queue = <<>>
    /\ nowPlaying = Null
    /\ modules = <<>>
    /\ backends = {}
    /\ backendInit = [b \in BackendNames |-> "pending"]
    /\ pending = {}
    /\ timers = <<>>
    /\ crashed = FALSE
    /\ ret = Undefined
    /\ trace = <<>>
    /\ op = Op("init", NoSong, Undefined, NoCont, "")
    /\ nextSeq = 1
    /\ live = {}
    /\ waiting = {}
    /\ maxStarted = 0

Init == InitPlayer /\ InitLocal

\* register(moduleName, moduleImpl): modules[moduleName] = moduleImpl.  A new
\* name goes last; an existing name keeps its place.  (Names stand for
\* non-numeric property keys, which an object keeps in insertion order.)
Register(name, impl) ==
    /\ ~crashed
    /\ modules' = IF \E i \in 1..Len(modules) : modules[i].name = name
                  THEN [i \in 1..Len(modules) |->
                          IF modules[i].name = name
                          THEN [name |-> name, impl |-> impl] ELSE modules[i]]
                  ELSE Append(modules, [name |-> name, impl |-> impl])
    /\ modules' # modules
    /\ op' = Op("register", NoSong, Undefined, NoCont, "")
    /\ ret' = Undefined
    /\ trace' = <<>>
    /\ UNCHANGED <<queue, nowPlaying, backends, backendInit, pending, timers,
                   crashed, nextSeq, live, waiting, maxStarted>>
    /\ UNCHANGED local

\* dispatch(hookName, args): a module-level user of _callHooks.
DispatchHook(hook) ==
    /\ ~crashed
    /\ Commit([Dispatch(State, hook) EXCEPT !.ret = CallHooks(modules, hook)])
    /\ op' = Op("dispatch", NoSong, Undefined, NoCont, hook)
    /\ UNCHANGED <<modules, backends, backendInit, crashed, nextSeq>>

\* backend.init succeeded: the backend is registered, onBackendInit fires.
BackendInitDone(b) ==
    /\ ~crashed
    /\ backendInit[b] = "pending"
    /\ backendInit' = [backendInit EXCEPT ![b] = "ready"]
    /\ backends' = backends \cup {b}
    /\ Commit(Dispatch(State, "onBackendInit"))
    /\ op' = Op("backendInit", NoSong, Undefined, NoCont, "")
    /\ UNCHANGED <<modules, crashed, nextSeq>>

\* backend.init failed: the backend stays unregistered.
BackendInitError(b) ==
    /\ ~crashed
    /\ backendInit[b] = "pending"
    /\ backendInit' = [backendInit EXCEPT ![b] = "failed"]
    /\ Commit(Dispatch(State, "onBackendInitError"))
    /\ op' = Op("backendInitError", NoSong, Undefined, NoCont, "")
    /\ UNCHANGED <<modules, backends, crashed, nextSeq>>

Accepts(st) == \E i \in 1..Len(st.trace) : st.trace[i].ev = "push"

\* POST /queue: _addToQueue(req.body.song) with req.body.userID.  An
\* exception out of it goes to the caller; the process lives on.
Enqueue(song, userID) ==
    /\ ~crashed
    /\ LET st == AddToQueue(State, song, userID)
       IN /\ Accepts(st) => nextSeq <= MaxAccepts
          /\ Commit(st)
          /\ nextSeq' = IF Accepts(st) THEN nextSeq + 1 ELSE nextSeq
          /\ op' = [Op("enqueue", song, userID, NoCont, "") EXCEPT
                       !.name = IF st.thrown THEN "enqueueThrew" ELSE @]
    /\ UNCHANGED <<modules, backends, backendInit, crashed>>

\* A continuation the backend was given is run: c leaves the outstanding
\* ones and st, the state its handler produced, becomes the next state.  An
\* exception in it is uncaught: the process ends.
Continue(c, st, name) ==
    /\ Commit(st)
    /\ crashed' = st.thrown
    /\ op' = Op(name, NoSong, Undefined, c, "")
    /\ UNCHANGED <<modules, backends, backendInit, nextSeq>>

\* The program state a continuation finds when the backend runs it.
Resume(c) == [State EXCEPT !.pending = @ \ {c}]

PrepareNowOk(c) ==
    /\ ~crashed /\ c \in pending /\ c.kind = "now"
    /\ Continue(c, NowPrepared(Resume(c), c), "nowPrepared")

PrepareNowFail(c) ==
    /\ ~crashed /\ c \in pending /\ c.kind = "now"
    /\ Continue(c, NowPrepareError(Resume(c), c), "nowPrepareError")

PrepareNextOk(c) ==
    /\ ~crashed /\ c \in pending /\ c.kind = "next"
    /\ Continue(c, NextPrepared(Resume(c), c), "nextPrepared")

PrepareNextFail(c) ==
    /\ ~crashed /\ c \in pending /\ c.kind = "next"
    /\ Continue(c, NextPrepareError(Resume(c), c), "nextPrepareError")

\* The i-th armed timer expires.
TimerExpires(i) ==
    /\ ~crashed
    /\ i \in 1..Len(timers)
    /\ LET st == SongTimer([State EXCEPT !.timers = Splice(timers, i)])
       IN /\ Commit(st)
          /\ crashed' = st.thrown
    /\ op' = Op("songTimer", NoSong, Undefined,
                [kind |-> "timer", start |-> FALSE, id |-> timers[i].id], "")
    /\ UNCHANGED <<modules, backends, backendInit, nextSeq>>

Conts == [kind : {"now", "next"}, start : BOOLEAN, id : SongIds]

Next ==
    \/ \E name \in 1..MaxModules, impl \in ModuleImpls : Register(name, impl)
    \/ \E b \in BackendNames : BackendInitDone(b)
    \/ \E b \in BackendNames : BackendInitError(b)
    \/ \E req \in Requests : Enqueue(req.song, req.userID)
    \/ \E c \in Conts : PrepareNowOk(c)
    \/ \E c \in Conts : PrepareNowFail(c)
    \/ \E c \in Conts : PrepareNextOk(c)
    \/ \E c \in Conts : PrepareNextFail(c)
    \/ \E i \in 1..MaxAccepts : TimerExpires(i)

Spec == Init /\ [][Next]_vars

\* The player with a backend that completes what it was asked and timers
\* that expire: every outstanding preparation is eventually answered (with
\* success unless an error answers it first) and every armed timer
\* eventually fires.
NextLive ==
    \/ \E b \in BackendNames : BackendInitDone(b)
    \/ \E req \in Requests : Enqueue(req.song, req.userID)
    \/ \E c \in Conts : PrepareNowOk(c)
    \/ \E c \in Conts : PrepareNowFail(c)
    \/ \E c \in Conts : PrepareNextOk(c)
    \/ \E c \in Conts : PrepareNextFail(c)
    \/ \E i \in 1..MaxAccepts : TimerExpires(i)

Fairness ==
    /\ WF_vars(\E c \in Conts : PrepareNowOk(c))
    /\ WF_vars(\E c \in Conts : PrepareNextOk(c))
    /\ WF_vars(\E i \in 1..MaxAccepts : TimerExpires(i))

SpecLive == Init /\ [][NextLive]_vars /\ Fairness

\* The hook dispatcher on its own: registrations and dispatches.
NextHooks ==
    \/ \E name \in 1..MaxHookModules, impl \in ModuleImpls : Register(name, impl)
    \/ \E hook \in HookNames : DispatchHook(hook)

SpecHooks == Init /\ [][NextHooks]_vars

(* ------------------------ Local.prototype.prepare ---------------------- *)
\* The closure made by a prepare call that begins preparing: the song, how
\* far it got ("lookup": findById outstanding; "encoding": encodeSong
\* running; "done"), its canceled flag, whether cancelEncode holds a
\* function, and what its callback was called with so far.  canceledAt (the
\* stage the first cancel found) and encodeStarted are history.
NewAttempt(id) ==
    [id |-> id, stage |-> "lookup", canceled |-> FALSE, cancelEncode |-> FALSE,
     results |-> <<>>, canceledAt |-> "", encodeStarted |-> FALSE]

\* What a call on the backend did: the new instance state and the call with
\* its synchronous answer.
Did(sf, name, id, a, out) ==
    [self |-> sf, call |-> [name |-> name, id |-> id, a |-> a, out |-> out]]

\* isPrepared(song): the song's file exists in the cache directory.
isPrepared(sf, id) == id \in sf.cache

\* (the cache is looked at before songsPreparing)
prepareCacheFirst(sf, id) ==
    IF isPrepared(sf, id) THEN Did(sf, "prepare", id, 0, "prepared")
    ELSE IF id \in sf.songsPreparing THEN Did(sf, "prepare", id, 0, "preparing")
    ELSE LET a == Len(sf.attempts) + 1
         IN Did([sf EXCEPT !.attempts = Append(@, NewAttempt(id)),
                           !.handle[id] = a,
                           !.songsPreparing = @ \cup {id}],
                "prepare", id, a, "")

\* prepare(song, callback): "preparing" is callback(null, null, false),
\* "prepared" is callback(null, null, true); otherwise the handle is
\* attached, the song registered and findById started (no answer yet).
prepare(sf, id) ==
    IF id \in sf.songsPreparing THEN Did(sf, "prepare", id, 0, "preparing")
    ELSE IF isPrepared(sf, id) THEN Did(sf, "prepare", id, 0, "prepared")
    ELSE LET a == Len(sf.attempts) + 1
         IN Did([sf EXCEPT !.attempts = Append(@, NewAttempt(id)),
                           !.handle[id] = a,
                           !.songsPreparing = @ \cup {id}],
                "prepare", id, a, "")

\* The callback of attempt a is called with this outcome.
Callback(sf, a, outcome) ==
    [sf EXCEPT !.attempts[a].results = Append(@, outcome)]

\* The handle of attempt a is destroyed: the song is no longer preparing.
Detach(sf, a) ==
    LET id == sf.attempts[a].id
    IN [sf EXCEPT !.songsPreparing = @ \ {id},
                  !.handle[id] = IF @ = a THEN 0 ELSE @]

\* cancelEncode(): the running encode is stopped and reports it.
cancelEncode(sf, a) ==
    IF sf.attempts[a].stage # "encoding" THEN sf
    ELSE Detach([Callback(sf, a, "encodeCanceled") EXCEPT
                    !.attempts[a].stage = "done"], a)

\* song.prepare.cancel()
cancel(sf, id) ==
    LET a == sf.handle[id]
        s1 == [sf EXCEPT !.attempts[a].canceled = TRUE,
                         !.attempts[a].canceledAt =
                             IF @ = "" THEN sf.attempts[a].stage ELSE @]
    IN IF s1.attempts[a].cancelEncode THEN cancelEncode(s1, a) ELSE s1

\* (the item is looked at before the canceled flag)
findByIdItemFirst(sf, a, item, cancellable) ==
    IF item
    THEN [sf EXCEPT !.attempts[a].stage = "encoding",
                    !.attempts[a].encodeStarted = TRUE,
                    !.attempts[a].cancelEncode = cancellable]
    ELSE IF sf.attempts[a].canceled
    THEN [Callback(sf, a, "canceled") EXCEPT !.attempts[a].stage = "done"]
    ELSE [Callback(sf, a, "notFound") EXCEPT !.attempts[a].stage = "done"]

\* The callback of SongModel.findById: item says whether the catalog has
\* the song, cancellable whether encodeSong returns a function to stop it.
findById(sf, a, item, cancellable) ==
    IF sf.attempts[a].canceled
    THEN [Callback(sf, a, "canceled") EXCEPT !.attempts[a].stage = "done"]
    ELSE IF item
    THEN [sf EXCEPT !.attempts[a].stage = "encoding",
                    !.attempts[a].encodeStarted = TRUE,
                    !.attempts[a].cancelEncode = cancellable]
    ELSE [Callback(sf, a, "notFound") EXCEPT !.attempts[a].stage = "done"]

\* readStream.on('error'): the source cannot be read.
readStreamError(sf, a) ==
    [Callback(sf, a, "readError") EXCEPT !.attempts[a].stage = "done"]

\* encodeSong finishes: it calls the callback it was handed, the song's
\* file is in the cache and the handle is destroyed.
encodeSongEnd(sf, a) ==
    Detach([Callback(sf, a, "success") EXCEPT
               !.attempts[a].stage = "done",
               !.cache = @ \cup {sf.attempts[a].id}], a)

\* encodeSong fails.
encodeSongError(sf, a) ==
    Detach([Callback(sf, a, "encodeError") EXCEPT !.attempts[a].stage = "done"], a)

\* The rest of the model is untouched by the calls on the backend's
\* prepare machinery.
PrepareFrame == UNCHANGED <<player, config, pool, scanned, items, results,
                            probeData, inserted>>

Prepare(id) ==
    /\ (id \notin self.songsPreparing /\ ~isPrepared(self, id))
          => Len(self.attempts) < MaxAttempts
    /\ self' = prepare(self, id).self
    /\ call' = prepare(self, id).call
    /\ PrepareFrame

Cancel(id) ==
    /\ self.handle[id] # 0
    /\ self' = cancel(self, id)
    /\ call' = NoCall
    /\ PrepareFrame

\* Attempt a is at this stage.
At(a, stage) == a \in 1..Len(self.attempts) /\ self.attempts[a].stage = stage

\* An outstanding step of attempt a completes: a callback, not a call.
Completes(a, name, sf) ==
    /\ self' = sf
    /\ call' = NoCall
    /\ PrepareFrame

LookupFound(a, cancellable) ==
    /\ At(a, "lookup")
    /\ Completes(a, "found", findById(self, a, TRUE, cancellable))

LookupMissing(a) ==
    /\ At(a, "lookup")
    /\ Completes(a, "missing", findById(self, a, FALSE, FALSE))

ReadError(a) ==
    /\ At(a, "encoding")
    /\ Completes(a, "readError", readStreamError(self, a))

EncodeEnd(a) ==
    /\ At(a, "encoding")
    /\ Completes(a, "encodeEnd", encodeSongEnd(self, a))

EncodeError(a) ==
    /\ At(a, "encoding")
    /\ Completes(a, "encodeError", encodeSongError(self, a))

\* The file of the song being encoded appears in the cache directory
\* before the encode has reported.
CacheStore(a) ==
    /\ At(a, "encoding")
    /\ self.attempts[a].id \notin self.cache
    /\ self' = [self EXCEPT !.cache = @ \cup {self.attempts[a].id}]
    /\ call' = NoCall
    /\ PrepareFrame

NextPrepare ==
    \/ \E id \in PrepIds : Prepare(id)
    \/ \E id \in PrepIds : Cancel(id)
    \/ \E a \in 1..MaxAttempts, cancellable \in BOOLEAN : LookupFound(a, cancellable)
    \/ \E a \in 1..MaxAttempts : LookupMissing(a)
    \/ \E a \in 1..MaxAttempts : ReadError(a)
    \/ \E a \in 1..MaxAttempts : EncodeEnd(a)
    \/ \E a \in 1..MaxAttempts : EncodeError(a)
    \/ \E a \in 1..MaxAttempts : CacheStore(a)

SpecPrepare == Init /\ [][NextPrepare]_vars

(* --------------------------- ingestion pool ---------------------------- *)
\* q = async.queue(worker, config.concurrentProbes).  tasks: the waiting
\* tasks, oldest first; workers: the count of running workers; stage: how
\* far each pushed task got ("queued", "probing": ffprobe outstanding,
\* "inserting": findOneAndUpdate outstanding, "done"); scheduled: a
\* setImmediate(q.process) is outstanding; catalog: the files that have an
\* entry in the song collection.  started (the order in which the workers
\* were started), dones (calls of done per task) and outcome (how each
\* task's worker ended) are history.

\* The worker is started on the head of the waiting tasks.
StartHead(p) ==
    LET t == Head(p.tasks)
    IN [p EXCEPT !.tasks = Tail(@),
                 !.workers = @ + 1,
                 !.stage[t] = "probing",
                 !.started = Append(@, t)]

\* (the running workers are not counted against the limit)
RECURSIVE processNoLimit(_, _)
processNoLimit(p, n) ==
    IF p.tasks # <<>> THEN processNoLimit(StartHead(p), n) ELSE p

\* q.process(): while fewer than n workers run and a task waits, start one.
RECURSIVE process(_, _)
process(p, n) ==
    IF p.workers < n /\ p.tasks # <<>> THEN process(StartHead(p), n) ELSE p

\* q.push(task): the task goes last and q.process is scheduled.
push(p, t) ==
    [p EXCEPT !.tasks = Append(@, t),
              !.stage = Append(@, "queued"),
              !.dones = Append(@, 0),
              !.outcome = Append(@, ""),
              !.scheduled = TRUE]

\* done(): the worker's slot is free again and q.process runs.
done(p, t, n) ==
    process([p EXCEPT !.workers = @ - 1,
                      !.stage[t] = "done",
                      !.dones[t] = @ + 1], n)

\* (a file of unknown format is skipped without done())
workerSkipKeepsSlot(p, t, kind, n) ==
    IF kind = "none" THEN done([p EXCEPT !.outcome[t] = "noData"], t, n)
    ELSE IF kind = "skip"
    THEN [p EXCEPT !.outcome[t] = "skipped", !.stage[t] = "returned"]
    ELSE [p EXCEPT !.stage[t] = "inserting"]

\* The callback the worker gives ffprobe: kind is "none" (no probeData),
\* "skip" (format not in importFormats) or "valid" (insertSong is called).
worker(p, t, kind, n) ==
    IF kind = "none" THEN done([p EXCEPT !.outcome[t] = "noData"], t, n)
    ELSE IF kind = "skip" THEN done([p EXCEPT !.outcome[t] = "skipped"], t, n)
    ELSE [p EXCEPT !.stage[t] = "inserting"]

\* The callback insertSong gives findOneAndUpdate: the entry of the file is
\* there unless err; done() either way.
upserted(p, t, err, n) ==
    done([p EXCEPT !.catalog = IF err THEN @ ELSE @ \cup {t},
                   !.outcome[t] = IF err THEN "insertError" ELSE "inserted"],
         t, n)

PoolFrame == UNCHANGED <<player, self, call, config, items, results,
                         probeData, inserted>>

\* walker.on('file'): the file is counted and pushed.
WalkerFile ==
    /\ scanned < MaxFiles
    /\ scanned' = scanned + 1
    /\ pool' = push(pool, scanned + 1)
    /\ PoolFrame

\* The scheduled q.process runs.
Process ==
    /\ pool.scheduled
    /\ pool' = process([pool EXCEPT !.scheduled = FALSE], config.concurrentProbes)
    /\ UNCHANGED scanned
    /\ PoolFrame

Probing(t) == t \in 1..scanned /\ pool.stage[t] = "probing"

\* ffprobe calls back without probe data: done().
ProbeFailed(t) ==
    /\ Probing(t)
    /\ pool' = worker(pool, t, "none", config.concurrentProbes)
    /\ UNCHANGED scanned
    /\ PoolFrame

\* ffprobe calls back with a format not in importFormats: done().
ProbeSkipped(t) ==
    /\ Probing(t)
    /\ pool' = worker(pool, t, "skip", config.concurrentProbes)
    /\ UNCHANGED scanned
    /\ PoolFrame

\* ffprobe calls back with an importable format: insertSong(probeData, done).
ProbeValid(t) ==
    /\ Probing(t)
    /\ pool' = worker(pool, t, "valid", config.concurrentProbes)
    /\ UNCHANGED scanned
    /\ PoolFrame

\* findOneAndUpdate calls back without an error: done().
InsertDone(t) ==
    /\ t \in 1..scanned /\ pool.stage[t] = "inserting"
    /\ pool' = upserted(pool, t, FALSE, config.concurrentProbes)
    /\ UNCHANGED scanned
    /\ PoolFrame

\* findOneAndUpdate calls back with an error: it is logged, then done().
InsertError(t) ==
    /\ t \in 1..scanned /\ pool.stage[t] = "inserting"
    /\ pool' = upserted(pool, t, TRUE, config.concurrentProbes)
    /\ UNCHANGED scanned
    /\ PoolFrame

InitPool ==
    /\ InitPlayer
    /\ \E n \in 1..MaxProbes :
          config = [NoConfig EXCEPT !.concurrentProbes = n]
    /\ self = [songsPreparing |-> {}, cache |-> {}, attempts |-> <<>>,
               handle |-> [id \in PrepIds |-> 0]]
    /\ call = NoCall
    /\ pool = [tasks |-> <<>>, workers |-> 0, stage |-> <<>>, started |-> <<>>,
               dones |-> <<>>, scheduled |-> FALSE, outcome |-> <<>>,
               catalog |-> {}]
    /\ scanned = 0
    /\ items = <<>>
    /\ results = <<>>
    /\ probeData = NoProbe
    /\ inserted = NoEntry

NextPool ==
    \/ WalkerFile
    \/ Process
    \/ \E t \in 1..MaxFiles : ProbeFailed(t)
    \/ \E t \in 1..MaxFiles : ProbeSkipped(t)
    \/ \E t \in 1..MaxFiles : ProbeValid(t)
    \/ \E t \in 1..MaxFiles : InsertDone(t)
    \/ \E t \in 1..MaxFiles : InsertError(t)

SpecPool == InitPool /\ [][NextPool]_vars

\* The pool with callbacks that are served: the scheduled q.process runs,
\* ffprobe calls back for every file it was given and findOneAndUpdate for
\* every upsert.
PoolFairness ==
    /\ WF_vars(Process)
    /\ \A t \in 1..MaxFiles :
          /\ WF_vars(ProbeFailed(t) \/ ProbeSkipped(t) \/ ProbeValid(t))
          /\ WF_vars(InsertDone(t) \/ InsertError(t))

SpecPoolLive == InitPool /\ [][NextPool]_vars /\ PoolFairness

(* ------------------------ Local.prototype.search ----------------------- *)
\* A score is the quotient num / den of two integers (den > 0), kept exact.
Quot(num, den) == [num |-> num, den |-> den]

\* (the divisor is the count of entries that can be returned)
scoreOfReturned(cfg, numItems, cur) ==
    LET cap == IF numItems < cfg.searchResultCnt THEN numItems
               ELSE cfg.searchResultCnt
    IN Quot(cfg.maxScore * (cap - cur), cap)

\* self.config.maxScore * (numItems - cur) / numItems
score(cfg, numItems, cur) == Quot(cfg.maxScore * (numItems - cur), numItems)

\* One call of the forEach callback, for the i-th item: acc holds
\* results.songs (keyed by song._id) and cur.
forEachItem(cfg, its, acc, i) ==
    IF Cardinality(DOMAIN acc.songs) <= cfg.searchResultCnt
    THEN [songs |-> (its[i] :> [songId |-> its[i],
                                score |-> score(cfg, Len(its), acc.cur)])
                       @@ acc.songs,
          cur |-> acc.cur + 1]
    ELSE acc

\* items.forEach(...), from the i-th item on.
RECURSIVE forEach(_, _, _, _)
forEach(cfg, its, acc, i) ==
    IF i > Len(its) THEN acc
    ELSE forEach(cfg, its, forEachItem(cfg, its, acc, i), i + 1)

\* The exec callback of SongModel.find(q): its are the matching songs' ids
\* in the order the storage returned them; the value is results.songs.
search(cfg, its) == forEach(cfg, its, [songs |-> <<>>, cur |-> 0], 1).songs

\* The catalog's answers: sequences of distinct song ids.
Catalogs ==
    {its \in UNION {[1..n -> 1..MaxItems] : n \in 0..MaxItems} :
        \A i, j \in 1..Len(its) : i # j => its[i] # its[j]}

Search ==
    /\ call = NoCall
    /\ results' = search(config, items)
    /\ call' = [name |-> "search", id |-> 0, a |-> 0, out |-> ""]
    /\ UNCHANGED <<player, self, config, pool, scanned, items, probeData, inserted>>

\* The exec callback gets an error: callback(err), no results.
SearchError ==
    /\ call = NoCall
    /\ call' = [name |-> "searchError", id |-> 0, a |-> 0, out |-> "err"]
    /\ UNCHANGED <<player, self, config, pool, scanned, items, results,
                   probeData, inserted>>

InitSearch ==
    /\ InitPlayer
    /\ \E n \in 1..MaxResultCnt, m \in 1..MaxMaxScore :
          config = [NoConfig EXCEPT !.searchResultCnt = n, !.maxScore = m]
    /\ items \in Catalogs
    /\ self = [songsPreparing |-> {}, cache |-> {}, attempts |-> <<>>,
               handle |-> [id \in PrepIds |-> 0]]
    /\ call = NoCall
    /\ pool = [tasks |-> <<>>, workers |-> 0, stage |-> <<>>, started |-> <<>>,
               dones |-> <<>>, scheduled |-> FALSE, outcome |-> <<>>,
               catalog |-> {}]
    /\ scanned = 0
    /\ results = <<>>
    /\ probeData = NoProbe
    /\ inserted = NoEntry

NextSearch == Search \/ SearchError

SpecSearch == InitSearch /\ [][NextSearch]_vars

(* ------------------------ guessMetadataFromPath ------------------------ *)
\* A path is the sequence of its segments (directories, then the file
\* name), each a sequence of characters.

\* s ends with suffix.
EndsWith(s, suffix) ==
    /\ Len(suffix) <= Len(s)
    /\ SubSeq(s, Len(s) - Len(suffix) + 1, Len(s)) = suffix

\* path.basename(p, ext): the last segment, without ext when it ends with
\* ext and is more than ext.
basename(p, ext) ==
    LET f == p[Len(p)]
    IN IF ext # <<>> /\ Len(f) > Len(ext) /\ EndsWith(f, ext)
       THEN SubSeq(f, 1, Len(f) - Len(ext))
       ELSE f

\* path.dirname(p)
dirname(p) == SubSeq(p, 1, Len(p) - 1)

\* s.split(c): the pieces of s between the occurrences of the character c.
RECURSIVE split(_, _)
split(s, c) ==
    IF \A i \in 1..Len(s) : s[i] # c THEN <<s>>
    ELSE LET i == CHOOSE k \in 1..Len(s) :
                     s[k] = c /\ \A j \in 1..(k - 1) : s[j] # c
         IN <<SubSeq(s, 1, i - 1)>> \o split(SubSeq(s, i + 1, Len(s)), c)

\* s.trim(): blanks removed at both ends.
RECURSIVE trim(_)
trim(s) ==
    IF s = <<>> THEN s
    ELSE IF Head(s) = " " THEN trim(Tail(s))
    ELSE IF s[Len(s)] = " " THEN trim(SubSeq(s, 1, Len(s) - 1))
    ELSE s

\* splitName[i] (0-based), undefined beyond the pieces.
Piece(pieces, i) == IF i + 1 <= Len(pieces) THEN Text(pieces[i + 1]) ELSE NoText

guessMetadataFromPath(filePath, fileExt) ==
    LET fileName == basename(filePath, fileExt)
        parts == split(fileName, "-")
        splitName == [i \in 1..Len(parts) |-> trim(parts[i])]
    IN [artist |-> Piece(splitName, 0),
        title |-> Piece(splitName, 1),
        album |-> Text(basename(dirname(filePath), <<>>))]

\* a || b
Or(x, y) == IF x.def /\ x.chars # <<>> THEN x ELSE y

\* The document insertSong builds from the probe result.
insertSong(pd) ==
    LET guessMetadata == guessMetadataFromPath(pd.file, pd.fileext)
    IN [title |-> Or(pd.metadata.TITLE, guessMetadata.title),
        artist |-> Or(pd.metadata.ARTIST, guessMetadata.artist),
        album |-> Or(pd.metadata.ALBUM, guessMetadata.album)]

\* File names without extension: the strings of 1..MaxNameLen letters,
\* blanks and dashes.
Chars == {"a", " ", "-"}
BaseNames == UNION {[1..n -> Chars] : n \in 1..MaxNameLen}

\* No extension, or ".m".
Exts == {<<>>, <<".", "m">>}

\* A file directly in the media directory "m", or in its directory "al".
Folders == {<< <<"m">> >>, << <<"m">>, <<"a", "l">> >>}

\* No tags at all; or a title tag, an empty artist tag and no album tag.
Tags == {[TITLE |-> NoText, ARTIST |-> NoText, ALBUM |-> NoText],
         [TITLE |-> Text(<<"t">>), ARTIST |-> Text(<<>>), ALBUM |-> NoText]}

\* What ffprobe reports: the file's path, its extension and its tags.
ProbeResults ==
    {[file |-> Append(d, b \o e), fileext |-> e, metadata |-> m] :
        d \in Folders, b \in BaseNames, e \in Exts, m \in Tags}

InsertSong ==
    /\ call = NoCall
    /\ inserted' = insertSong(probeData)
    /\ call' = [name |-> "insertSong", id |-> 0, a |-> 0, out |-> ""]
    /\ UNCHANGED <<player, self, config, pool, scanned, items, results, probeData>>

InitMeta ==
    /\ InitPlayer
    /\ probeData \in ProbeResults
    /\ config = NoConfig
    /\ self = [songsPreparing |-> {}, cache |-> {}, attempts |-> <<>>,
               handle |-> [id \in PrepIds |-> 0]]
    /\ call = NoCall
    /\ pool = [tasks |-> <<>>, workers |-> 0, stage |-> <<>>, started |-> <<>>,
               dones |-> <<>>, scheduled |-> FALSE, outcome |-> <<>>,
               catalog |-> {}]
    /\ scanned = 0
    /\ items = <<>>
    /\ results = <<>>
    /\ inserted = NoEntry

NextMeta == InsertSong

SpecMeta == InitMeta /\ [][NextMeta]_vars

(* ----------------------------- properties ------------------------------ *)
QueueIds(q) == {q[i].id : i \in 1..Len(q)}

\* How many entries of the queue and the now-playing slot carry this id.
Occurrences(q, np, id) ==
    Cardinality({i \in 1..Len(q) : q[i].id = id})
      + (IF np # Null /\ np.id = id THEN 1 ELSE 0)

\* Positions of the trace events of one kind.
Events(tr, e, h) == {i \in 1..Len(tr) : tr[i].ev = e /\ tr[i].hook = h}

\* The request of the step is complete: all song fields and the user id.
Complete(o) == o.song \in ValidSongs /\ o.userID # Undefined

\* C1: a complete enqueue request whose id is already in the queue or in the
\* now-playing slot returns the duplicate error, dispatches no hook and
\* leaves exactly one entry with that id.
C1_DuplicateRejected ==
    [][(/\ op'.name = "enqueue"
        /\ Complete(op')
        /\ (op'.song.id \in QueueIds(queue) \/ nowPlaying.id = op'.song.id))
       => /\ ret' = Str("duplicate songID")
          /\ trace' = <<>>
          /\ queue' = queue
          /\ nowPlaying' = nowPlaying
          /\ Occurrences(queue', nowPlaying', op'.song.id) = 1]_vars

C1_Witness ==
    /\ op.name = "enqueue"
    /\ Complete(op)
    /\ ret = Str("duplicate songID")
    /\ nowPlaying.id = op.song.id
    /\ Len(queue) > 0

\* C2: an enqueue request with title, id or duration absent, or with the
\* user id absent, returns a validation error, changes neither the queue nor
\* the now-playing slot nor the timer, dispatches no hook and does not run
\* onQueueModify.
C2_InvalidRejected ==
    [][(/\ op'.name \in {"enqueue", "enqueueThrew"}
        /\ \/ op'.song.title = Undefined
           \/ op'.song.id = Undefined
           \/ op'.song.duration = Undefined
           \/ op'.userID = Undefined)
       => /\ op'.name = "enqueue"
          /\ ret' \in {Str("required song fields not provided"), Str("invalid userID")}
          /\ queue' = queue
          /\ nowPlaying' = nowPlaying
          /\ timers' = timers
          /\ pending' = pending
          /\ trace' = <<>>]_vars

C2_Witness ==
    /\ op.name = "enqueue"
    /\ op.song \in ValidSongs
    /\ op.userID = Undefined
    /\ ret = Str("invalid userID")
    /\ op.song.id \notin QueueIds(queue)
    /\ nowPlaying # Null
    /\ nowPlaying.id # op.song.id

\* Some registered module's preSongQueued returns a truthy value.
Vetoing == \E i \in 1..Len(modules) :
              /\ HookImpl(modules[i].impl, "preSongQueued").has
              /\ Truthy(HookImpl(modules[i].impl, "preSongQueued").ret)

\* C3: when a module's preSongQueued returns truthy, enqueue aborts: queue and
\* now-playing slot unchanged, onQueueModify not run, postSongQueued not
\* dispatched, and an error (a truthy value) returned.
C3_VetoAborts ==
    [][(/\ op'.name \in {"enqueue", "enqueueThrew"}
        /\ Complete(op')
        /\ op'.song.id \notin QueueIds(queue)
        /\ nowPlaying.id # op'.song.id
        /\ Vetoing)
       => /\ op'.name = "enqueue"
          /\ queue' = queue
          /\ nowPlaying' = nowPlaying
          /\ pending' = pending
          /\ Events(trace', "onQueueModify", "") = {}
          /\ Events(trace', "dispatch", "postSongQueued") = {}
          /\ Events(trace', "call", "preSongQueued") # {}
          /\ Truthy(ret')]_vars

C3_Witness ==
    /\ op.name = "enqueue"
    /\ Complete(op)
    /\ Vetoing
    /\ Events(trace, "call", "preSongQueued") # {}
    /\ Truthy(ret)
    /\ nowPlaying # Null

\* The first module, in registration order, whose hook returns truthy (0:
\* none).
FirstVeto(hook) ==
    LET hit == {i \in 1..Len(modules) :
                   /\ HookImpl(modules[i].impl, hook).has
                   /\ Truthy(HookImpl(modules[i].impl, hook).ret)}
    IN IF hit = {} THEN 0 ELSE Min(hit)

\* C4: dispatch returns the truthy value the first vetoing module's hook
\* returned, and undefined when no hook returns truthy.
C4_DispatchReturnsHookValue ==
    op.name = "dispatch"
       => ret = IF FirstVeto(op.hook) = 0 THEN Undefined
                ELSE HookImpl(modules[FirstVeto(op.hook)].impl, op.hook).ret

\* The modules applied by the step's dispatch of a hook, in order.
Calls(tr, hook) == SelectSeq(tr, LAMBDA e : e.ev = "call" /\ e.hook = hook)

\* C5: dispatch applies the hook to modules in registration order, only to
\* modules that implement it, to none after the first truthy return, and
\* exactly once to every implementing module up to that one.
C5_DispatchOrder ==
    op.name = "dispatch"
       => LET calls == Calls(trace, op.hook)
          IN /\ \A k \in 1..(Len(calls) - 1) : calls[k].m < calls[k + 1].m
             /\ \A k \in 1..Len(calls) :
                   /\ calls[k].m \in 1..Len(modules)
                   /\ calls[k].n = modules[calls[k].m].name
             /\ \A i \in 1..Len(modules) :
                   (\E k \in 1..Len(calls) : calls[k].m = i)
                     <=> /\ HookImpl(modules[i].impl, op.hook).has
                         /\ \A j \in 1..(i - 1) :
                               ~(/\ HookImpl(modules[j].impl, op.hook).has
                                 /\ Truthy(HookImpl(modules[j].impl, op.hook).ret))

C5_Witness ==
    /\ op.name = "dispatch"
    /\ op.hook = "preSongQueued"
    /\ Len(modules) = 3
    /\ modules[1].impl = "D"
    /\ modules[2].impl = "A"
    /\ modules[3].impl = "B"
    /\ Len(Calls(trace, op.hook)) = 2

\* Tickets of the entries in the queue and the now-playing slot.
PlayerSeqs ==
    {queue[i].seq : i \in 1..Len(queue)}
      \cup (IF nowPlaying # Null THEN {nowPlaying.seq} ELSE {})

\* C6: no two entries of the queue and the now-playing slot share an id, no
\* entry is in both, and every accepted song that has neither finished
\* playing nor been evicted by a preparation-error continuation is in
\* exactly one of the two.
C6_UniqueAndPlaced ==
    /\ \A i, j \in 1..Len(queue) :
          i # j => queue[i].id # queue[j].id /\ queue[i].seq # queue[j].seq
    /\ \A i \in 1..Len(queue) :
          queue[i].id # nowPlaying.id /\ queue[i].seq # nowPlaying.seq
    /\ live \subseteq PlayerSeqs

C6_Witness ==
    /\ nowPlaying # Null
    /\ Len(queue) >= 2
    /\ Cardinality(live) = 3
    /\ nextSeq > 4

\* C7: no accepted song that still waits for its turn (neither promoted nor
\* evicted because its own preparation failed) was enqueued before a song
\* that has already become now-playing.
C7_StrictFifo == \A t \in waiting : t > maxStarted

\* At most one timer, armed for the song in the slot by the success
\* continuation of the promotion's preparation and by no other; its expiry
\* dispatches onSongEnd once for that song while it is in the slot, then clears
\* the slot, then runs onQueueModify.
TimerDiscipline ==
    /\ Len(timers) <= 1
    /\ \A i \in 1..Len(timers) :
          nowPlaying # Null /\ timers[i].seq = nowPlaying.seq
    /\ (op.name = "nowPrepared" /\ op.cont.start /\ ~crashed)
          => /\ Len(timers) = 1
             /\ Cardinality(Events(trace, "setTimeout", "")) = 1
    /\ (op.name = "nowPrepared" /\ ~op.cont.start)
          => Events(trace, "setTimeout", "") = {}
    /\ (op.name = "songTimer" /\ ~crashed)
          => LET e == Events(trace, "dispatch", "onSongEnd")
                 c == Events(trace, "clear", "")
                 m == Events(trace, "onQueueModify", "")
             IN /\ Cardinality(e) = 1
                /\ Cardinality(c) = 1
                /\ Cardinality(m) = 1
                /\ \A i \in e, j \in c, k \in m :
                      i < j /\ j < k /\ trace[i].n = op.cont.id.n
                                     /\ trace[j].n = op.cont.id.n
                /\ timers = <<>>

\* C8 as stated: the timer discipline, with delay duration + songDelayMs
\* (in tenths of a millisecond).
C8_TimerExactDelay ==
    /\ TimerDiscipline
    /\ \A i \in 1..Len(timers) :
          10 * timers[i].delay
            = 10 * nowPlaying.duration.n + nowPlaying.duration.f + 10 * songDelayMs

\* C8 as amended: the timer discipline, with delay the whole milliseconds of
\* the duration + songDelayMs.
C8_TimerParsedDelay ==
    /\ TimerDiscipline
    /\ \A i \in 1..Len(timers) :
          timers[i].delay = nowPlaying.duration.n + songDelayMs

C8_Witness ==
    /\ op.name = "songTimer"
    /\ ~crashed
    /\ op.cont.id = Num(2)
    /\ nowPlaying # Null
    /\ Events(trace, "dispatch", "onSongEnd") # {}

\* C9 as stated: the slot is non-null iff a timer is armed.
C9_SlotIffTimer == (nowPlaying # Null) <=> (Len(timers) > 0)

\* C9 as amended: a timer is armed iff the slot holds a song whose playback
\* has been started (the promotion's preparation succeeded).
C9_TimerIffStarted ==
    (Len(timers) > 0) <=> (nowPlaying # Null /\ nowPlaying.playbackStart)

C9_Witness ==
    /\ op.name = "nowPrepareError"
    /\ ~crashed
    /\ nowPlaying # Null
    /\ ~nowPlaying.playbackStart
    /\ timers = <<>>
    /\ maxStarted > 1

\* C10: after the error continuation of the now-playing preparation,
\* onSongPrepareError has been dispatched and the failed song is in neither
\* the queue nor the now-playing slot.
C10_FailedSongLeavesSlot ==
    (op.name = "nowPrepareError" /\ ~crashed)
       => /\ Events(trace, "dispatch", "onSongPrepareError") # {}
          /\ op.cont.id \notin QueueIds(queue)
          /\ nowPlaying.id # op.cont.id


\* A run of _onQueueModify that went through: the step ran it and nothing
\* was thrown.
RanOnQueueModify ==
    /\ Events(trace, "onQueueModify", "") # {}
    /\ Events(trace, "throw", "now") = {}
    /\ ~crashed

C11_PlaybackContinues ==
    \A f \in 1..MaxAccepts :
       (/\ op.name = "nowPrepareError" /\ op.cont.start
        /\ ~crashed /\ Len(queue) > 0 /\ maxStarted = f)
          ~> \/ crashed
             \/ Len(queue) = 0
             \/ (maxStarted > f /\ nowPlaying.playbackStart /\ Len(timers) > 0)


\* Attempts for this song that were begun and have not ended.
InFlightOf(sf, id) ==
    {a \in 1..Len(sf.attempts) :
        sf.attempts[a].id = id /\ sf.attempts[a].stage \in {"lookup", "encoding"}}

Outcomes(att) == {att.results[i] : i \in 1..Len(att.results)}

\* C12: no song ever has two preparation attempts in flight, and a prepare
\* call for a song with an attempt in flight is answered at once with
\* "already preparing" and changes nothing (no handle attached or replaced,
\* no second lookup or encode), also when the song's file is in the cache.
C12_OnePreparation ==
    [][/\ \A id \in PrepIds : Cardinality(InFlightOf(self', id)) <= 1
       /\ (call'.name = "prepare" /\ InFlightOf(self, call'.id) # {})
             => (call'.out = "preparing" /\ self' = self)]_vars

C12_Witness ==
    /\ call.name = "prepare" /\ call.out = "preparing"
    /\ InFlightOf(self, call.id) # {}
    /\ call.id \in self.cache

\* C13: an attempt canceled while its catalog lookup was outstanding never
\* starts the encode and never reports success; when it ends, its callback
\* was called exactly once, with the cancellation error.
C13_CancelBeforeStart ==
    \A a \in 1..Len(self.attempts) :
       LET att == self.attempts[a]
       IN att.canceledAt = "lookup"
             => /\ ~att.encodeStarted
                /\ "success" \notin Outcomes(att)
                /\ att.stage = "done" => att.results = <<"canceled">>

C13_Witness ==
    \E a \in 1..Len(self.attempts) :
       /\ self.attempts[a].canceledAt = "lookup"
       /\ self.attempts[a].stage = "done"
       /\ self.attempts[a].results = <<"canceled">>

\* C14: an attempt canceled while encoding, whose encode gave no function to
\* stop it, never reports success to the caller.
C14_CancelSuppressesSuccess ==
    \A a \in 1..Len(self.attempts) :
       LET att == self.attempts[a]
       IN (att.canceledAt = "encoding" /\ ~att.cancelEncode)
             => "success" \notin Outcomes(att)

\* C15: once an attempt has ended in cancellation before start, song not
\* found or source unreadable (and no newer attempt is in flight), the song
\* is not registered as preparing and does not carry that attempt's handle.
C15_DetachedAfterFailure ==
    \A a \in 1..Len(self.attempts) :
       LET att == self.attempts[a]
       IN (/\ att.stage = "done"
           /\ Outcomes(att) \cap {"canceled", "notFound", "readError"} # {}
           /\ InFlightOf(self, att.id) = {})
             => /\ att.id \notin self.songsPreparing
                /\ self.handle[att.id] # a


\* Probes in flight: tasks whose worker was started and has not called done.
InFlightProbes == {t \in 1..scanned : pool.stage[t] \in {"probing", "inserting"}}

\* C16: never more than concurrentProbes probes are in flight; the workers
\* are started in the order the files were pushed, and the files not yet
\* started wait in that order; a file waits only while the pool is full
\* (or until the scheduled q.process has run).
C16_PoolLimitFifo ==
    /\ Cardinality(InFlightProbes) <= config.concurrentProbes
    /\ pool.workers = Cardinality(InFlightProbes)
    /\ \A i \in 1..Len(pool.started) : pool.started[i] = i
    /\ \A i \in 1..Len(pool.tasks) : pool.tasks[i] = Len(pool.started) + i
    /\ Len(pool.started) + Len(pool.tasks) = scanned
    /\ (pool.tasks # <<>> /\ ~pool.scheduled)
          => Cardinality(InFlightProbes) = config.concurrentProbes

C16_Witness ==
    /\ scanned > config.concurrentProbes + 1
    /\ Cardinality(InFlightProbes) = config.concurrentProbes
    /\ Len(pool.tasks) >= 2
    /\ \E t \in 1..scanned : pool.stage[t] = "done"


\* C17: a search returns at most searchResultCnt entries.
C17_AtMostResultCnt ==
    call.name = "search"
       => Cardinality(DOMAIN results) <= config.searchResultCnt

QuotEq(x, y) == x.num * y.den = y.num * x.den
QuotLess(x, y) == x.num * y.den < y.num * x.den

\* The storage ranks (1-based) of the entries a search returned.
Returned == {i \in 1..Len(items) : items[i] \in DOMAIN results}

\* C18: the returned entry of 0-based storage rank k scores
\* maxScore * (total - k) / total, total being the count of all matches;
\* the first match is returned and scores maxScore, scores strictly
\* decrease with rank and every score is positive.
C18_ScoreByRank ==
    call.name = "search"
       => /\ \A i \in Returned :
                /\ results[items[i]].score.den > 0
                /\ QuotEq(results[items[i]].score,
                          Quot(config.maxScore * (Len(items) - (i - 1)), Len(items)))
                /\ QuotLess(Quot(0, 1), results[items[i]].score)
          /\ Len(items) > 0 =>
                /\ 1 \in Returned
                /\ QuotEq(results[items[1]].score, Quot(config.maxScore, 1))
          /\ \A i, j \in Returned :
                i < j => QuotLess(results[items[j]].score, results[items[i]].score)

C18_Witness ==
    /\ call.name = "search"
    /\ Len(items) > config.searchResultCnt + 1
    /\ Cardinality(Returned) >= 2
    /\ items[1] > items[2]


\* Where " - " begins in a name.
SeparatorAt(name) ==
    {i \in 1..(Len(name) - 2) : SubSeq(name, i, i + 2) = <<" ", "-", " ">>}

\* C19: for a probed file without tags the entry's album is the name of the
\* file's directory and, when the base name (extension removed) contains
\* " - ", its artist is what precedes the first " - " and its title all that
\* follows it (blanks at the ends aside).
C19_SplitOnFirstSeparator ==
    (call.name = "insertSong" /\ probeData.metadata = NoProbe.metadata)
       => LET name == basename(probeData.file, probeData.fileext)
          IN /\ inserted.album = Text(probeData.file[Len(probeData.file) - 1])
             /\ SeparatorAt(name) # {} =>
                   LET i == Min(SeparatorAt(name))
                   IN /\ inserted.artist = Text(trim(SubSeq(name, 1, i - 1)))
                      /\ inserted.title = Text(trim(SubSeq(name, i + 3, Len(name))))


\* The queue without the entries of this song id.
Without(entries, id) ==
    LET Other(e) == e.id # id
    IN SelectSeq(entries, Other)

\* C21: the error continuation of a pre-fetch removes from the queue the
\* song whose preparation failed and nothing else, whatever the queue's head
\* is by then; the success continuation leaves the queue as it was.
C21_FailedPrefetchEvicted ==
    [][/\ op'.name = "nextPrepareError" => queue' = Without(queue, op'.cont.id)
       /\ op'.name = "nextPrepared" => queue' = queue]_vars


\* C23: when a continuation of a now-playing preparation runs (success or
\* error), the now-playing slot is not empty and holds the song that
\* preparation was started for.
C23_ContinuationFindsItsSong ==
    [][op'.name \in {"nowPrepared", "nowPrepareError"}
          => (nowPlaying # Null /\ nowPlaying.id = op'.cont.id)]_vars


\* Tasks whose worker ended one of the ways the code provides for.
Ended(t) == pool.outcome[t] \in {"noData", "skipped", "inserted", "insertError"}

\* C22: every pushed file's task is completed exactly once, whether the
\* probe gave no data, the format was skipped, or the upsert succeeded or
\* failed: done was called once for an ended task and never otherwise, so
\* the count of running workers is the count of probes in flight; the
\* catalog holds exactly the files whose upsert succeeded; with callbacks
\* served, every pushed file is eventually done and the pool drains.
C22_EveryTaskOnce ==
    /\ [](\A t \in 1..scanned :
             /\ pool.dones[t] = (IF Ended(t) THEN 1 ELSE 0)
             /\ Ended(t) <=> pool.stage[t] = "done")
    /\ [](pool.workers = Cardinality(InFlightProbes))
    /\ [](pool.catalog = {t \in 1..scanned : pool.outcome[t] = "inserted"})
    /\ \A t \in 1..MaxFiles :
          (scanned >= t) ~> (scanned >= t /\ pool.stage[t] = "done")
    /\ []<>(pool.tasks = <<>> /\ pool.workers = 0)

C22_Witness ==
    /\ scanned = MaxFiles
    /\ pool.tasks = <<>> /\ pool.workers = 0
    /\ \A o \in {"noData", "skipped", "inserted", "insertError"} :
          \E t \in 1..scanned : pool.outcome[t] = o
    /\ \A t \in 1..scanned : pool.stage[t] = "done"

====
